---- MODULE Spec2Model ----
(***************************************************************************)
(* Kanban board backend (src/App.py, src/Models.py): the positional        *)
(* ordering of columns and cards under create / update / delete / reorder  *)
(* / move, with the SQLAlchemy session (pending writes) and the committed  *)
(* store kept apart.                                                       *)
(***************************************************************************)
EXTENDS Integers, Sequences, FiniteSets, TLC

VARIABLES
    columns,   \* committed rows of table "columns": id -> [title, position_index]
    cards,     \* committed rows of table "cards": id -> [title, description, column_id, position_index, label_color]
    pending,   \* uncommitted attribute writes held by db.session: card id -> dirty row
    last,      \* the request handled last and its outcome
    prev,      \* the committed store before the request handled last
    inflight   \* requests handled at the same time: worker -> the request, what its
               \* session has read, and its response status once it has returned

vars == <<columns, cards, pending, last, prev, inflight>>

----------------------------------------------------------------------------
\* Bounds of the model

\* largest column id the store hands out
MaxColumnId == 3
\* largest card id the store hands out
MaxCardId == 2
\* longest ordered_ids list a reorder_columns request carries
MaxOrderedIds == 3
\* longest ordered_card_ids list a move_card request carries
MaxOrderedCardIds == 2

ColumnIds == 1..MaxColumnId
CardIds == 1..MaxCardId

----------------------------------------------------------------------------
\* Strings, run-length encoded: a sequence of runs <<character, count>>,
\* count >= 1, adjacent runs of different characters.

StrEmpty == <<>>

RECURSIVE StrLen(_)
StrLen(s) == IF s = <<>> THEN 0 ELSE s[1][2] + StrLen(Tail(s))

IsSpace(ch) == ch = " "

RECURSIVE LStrip(_)
LStrip(s) ==
    IF s = <<>> THEN <<>>
    ELSE IF IsSpace(s[1][1]) THEN LStrip(Tail(s)) ELSE s

RECURSIVE RStrip(_)
RStrip(s) ==
    IF s = <<>> THEN <<>>
    ELSE IF IsSpace(s[Len(s)][1]) THEN RStrip(SubSeq(s, 1, Len(s) - 1)) ELSE s

\* str.strip()
Strip(s) == RStrip(LStrip(s))

\* str.startswith("#")
StartsWithHash(s) == s # <<>> /\ s[1][1] = "#"

----------------------------------------------------------------------------
\* HTTP status codes

OK == 200
CREATED == 201
NO_CONTENT == 204
BAD_REQUEST == 400
NOT_FOUND == 404
INTERNAL_SERVER_ERROR == 500

Success == {OK, CREATED, NO_CONTENT}

ColumnTitleMax == 120
CardTitleMax == 500

----------------------------------------------------------------------------
\* JSON values of a request body

JAbsent == [t |-> "absent", v |-> <<>>]
JNull == [t |-> "null", v |-> <<>>]
JStr(s) == [t |-> "str", v |-> s]
JList(l) == [t |-> "list", v |-> l]
JInt(n) == [t |-> "int", v |-> n]

\* (x or "") for a string-or-null x
OrEmpty(j) == IF j.t = "str" THEN j.v ELSE StrEmpty

\* truthiness of a JSON value (None, "" and [] are falsy)
Truthy(j) == j.t \in {"str", "list"} /\ j.v # <<>>

----------------------------------------------------------------------------
\* Rows

ColumnRow(title, pos) == [title |-> title, position_index |-> pos]

CardRow(title, description, column_id, pos, label_color) ==
    [title |-> title, description |-> description, column_id |-> column_id,
     position_index |-> pos, label_color |-> label_color]

SetMax(S) == CHOOSE m \in S : \A x \in S : x <= m

\* primary key of the next inserted row (SQLite rowid: largest id in use + 1)
NextId(rows) == IF DOMAIN rows = {} THEN 1 ELSE SetMax(DOMAIN rows) + 1

\* The rows as db.session sees them: the committed rows with its own
\* uncommitted writes on top.
SessionCards == [c \in DOMAIN cards |-> IF c \in DOMAIN pending THEN pending[c] ELSE cards[c]]

NoPending == <<>>

\* the log entry of a request: ids is the list the request applied, kept for
\* the requests that succeeded; body holds what the handler validates of the
\* request body (the title and the label_color given, the JSON types of
\* target_column_id and of the id list); commits counts the calls of
\* db.session.commit() that returned
Request(op, status, id, target, ids, fail) ==
    [op |-> op, status |-> status, id |-> id, target |-> target,
     ids |-> IF status \in Success THEN ids ELSE <<>>, fail |-> fail, body |-> <<>>,
     commits |-> 0]

\* no request is being handled
NoRequest == Request("idle", 0, 0, 0, <<>>, "none")

\* the committed rows and the session's uncommitted writes
Store == [columns |-> columns, cards |-> cards, pending |-> pending]

NoStore == [columns |-> <<>>, cards |-> <<>>, pending |-> NoPending]

----------------------------------------------------------------------------
\* _seed_default_columns

DefaultTitles ==
    << <<<<"T", 2>>, <<" ", 1>>, <<"D", 2>>>>,
       <<<<"I", 2>>, <<" ", 1>>, <<"P", 8>>>>,
       <<<<"D", 4>>>> >>

Init ==
    /\ columns = [i \in 1..Len(DefaultTitles) |-> ColumnRow(DefaultTitles[i], i - 1)]
    /\ cards = <<>>
    /\ pending = NoPending
    /\ last = NoRequest
    /\ prev = NoStore
    /\ inflight = <<>>

----------------------------------------------------------------------------
\* Position Normalizer

\* enumerate(rows, start=1) in the place of enumerate(rows)
NormaliseChoicesFromOne(ids, pos) ==
    {f \in [ids -> 1..Cardinality(ids)] :
        /\ \A a, b \in ids : a # b => f[a] # f[b]
        /\ \A a, b \in ids : pos[a] < pos[b] => f[a] < f[b]}

\* a query without order_by: the rows come in any order
NormaliseChoicesUnordered(ids, pos) ==
    {f \in [ids -> 0..(Cardinality(ids) - 1)] : \A a, b \in ids : a # b => f[a] # f[b]}

\* order_by(position_index.desc()) in the place of order_by(position_index)
NormaliseChoicesDescending(ids, pos) ==
    {f \in [ids -> 0..(Cardinality(ids) - 1)] :
        /\ \A a, b \in ids : a # b => f[a] # f[b]
        /\ \A a, b \in ids : pos[a] < pos[b] => f[a] > f[b]}

\* The renumberings ORDER BY position_index followed by enumerate() can give
\* to the rows `ids` whose positions are pos[id]: rows of equal position come
\* back from the query in an order the database chooses.
NormaliseChoices(ids, pos) ==
    IF \A a, b \in ids : a # b => pos[a] # pos[b]
    THEN {[a \in ids |-> Cardinality({b \in ids : pos[b] < pos[a]})]}
    ELSE {f \in [ids -> 0..(Cardinality(ids) - 1)] :
            /\ \A a, b \in ids : a # b => f[a] # f[b]
            /\ \A a, b \in ids : pos[a] < pos[b] => f[a] < f[b]}

\* the normalizer called after the commit: its writes stay in the session
_normalise_column_positions_late(cols, f) == cols

\* _normalise_column_positions: cols with the renumbering f written
_normalise_column_positions(cols, f) ==
    [c \in DOMAIN cols |-> [cols[c] EXCEPT !.position_index = f[c]]]

ColumnChoices(cols) ==
    NormaliseChoices(DOMAIN cols, [c \in DOMAIN cols |-> cols[c].position_index])

CardsOf(cs, column_id) == {c \in DOMAIN cs : cs[c].column_id = column_id}

CardChoices(cs, column_id) ==
    NormaliseChoices(CardsOf(cs, column_id),
                     [c \in CardsOf(cs, column_id) |-> cs[c].position_index])

\* the source column left as it is: step 3 without its effect
_normalise_card_positions_skipped(cs, column_id, f) == cs

\* _normalise_card_positions(column_id): cs with the renumbering f written
_normalise_card_positions(cs, column_id, f) ==
    [c \in DOMAIN cs |->
        IF cs[c].column_id = column_id THEN [cs[c] EXCEPT !.position_index = f[c]] ELSE cs[c]]

----------------------------------------------------------------------------
\* db.func.max(position_index) ... .scalar() or -1, then + 1

\* (x or -1): None and 0 are both falsy
OrMinusOne(S) == IF S = {} \/ SetMax(S) = 0 THEN -1 ELSE SetMax(S)

AppendPosition(S) == OrMinusOne(S) + 1

----------------------------------------------------------------------------
\* How a handler ends

\* db.session.commit(): the session's rows become the committed rows
Commit(cols, cs, req) ==
    /\ columns' = cols
    /\ cards' = cs
    /\ pending' = NoPending
    /\ last' = [req EXCEPT !.commits = @ + 1]
    /\ prev' = Store
    /\ UNCHANGED inflight

\* a return that neither commits nor rolls back: the session keeps its writes
Return(dirty, req) ==
    /\ UNCHANGED <<columns, cards>>
    /\ pending' = dirty
    /\ last' = req
    /\ prev' = Store
    /\ UNCHANGED inflight

\* db.session.rollback() in the except branch
Rollback(req) ==
    /\ UNCHANGED <<columns, cards>>
    /\ pending' = NoPending
    /\ last' = req
    /\ prev' = Store
    /\ UNCHANGED inflight

----------------------------------------------------------------------------
\* Columns

PositionsOf(rows, ids) == {rows[r].position_index : r \in ids}

create_column(title) ==
       LET t == Strip(OrEmpty(title))
           req(status) ==
               [Request("create_column", status, NextId(columns), 0, <<>>, "none")
                   EXCEPT !.body = <<title>>]
       IN  IF t = StrEmpty \/ StrLen(t) > ColumnTitleMax
           THEN Return(pending, req(BAD_REQUEST))
           ELSE /\ NextId(columns) <= MaxColumnId
                /\ LET max_pos == AppendPosition(PositionsOf(columns, DOMAIN columns))
                        id == NextId(columns)
                    IN  Commit([c \in DOMAIN columns \cup {id} |->
                                   IF c = id THEN ColumnRow(t, max_pos) ELSE columns[c]],
                               SessionCards, req(CREATED))

update_column(column_id, title) ==
       LET new_title == Strip(OrEmpty(title))
           req(status) ==
               [Request("update_column", status, column_id, 0, <<>>, "none")
                   EXCEPT !.body = <<title>>]
       IN  IF column_id \notin DOMAIN columns
           THEN Return(pending, req(NOT_FOUND))
           ELSE IF new_title = StrEmpty \/ StrLen(new_title) > ColumnTitleMax
           THEN Return(pending, req(BAD_REQUEST))
           ELSE Commit([columns EXCEPT ![column_id].title = new_title], SessionCards, req(OK))

\* a relationship without the delete cascade: the cards stay
DeleteColumnNoCascade(cs, column_id) == cs

\* a cascade that is not filtered by column_id: every card goes
DeleteColumnEveryCard(cs, column_id) == <<>>

\* db.session.delete(column) with cascade="all, delete-orphan" on Column.cards
DeleteColumnCascade(cs, column_id) ==
    [c \in {x \in DOMAIN cs : cs[x].column_id # column_id} |-> cs[c]]

delete_column(column_id) ==
       LET req(status) == Request("delete_column", status, column_id, 0, <<>>, "none")
       IN  IF column_id \notin DOMAIN columns
           THEN Return(pending, req(NOT_FOUND))
           ELSE LET left == [c \in DOMAIN columns \ {column_id} |-> columns[c]]
                IN  \E f \in ColumnChoices(left) :
                       Commit(_normalise_column_positions(left, f),
                              DeleteColumnCascade(SessionCards, column_id), req(NO_CONTENT))

\* col.position_index = idx + 1 in the place of idx
RECURSIVE ApplyColumnOrderOneBased(_, _, _)
ApplyColumnOrderOneBased(cols, ids, idx) ==
    IF ids = <<>> THEN cols
    ELSE ApplyColumnOrderOneBased(
            IF Head(ids) \in DOMAIN cols
            THEN [cols EXCEPT ![Head(ids)].position_index = idx + 1] ELSE cols,
            Tail(ids), idx + 1)

\* an index that counts the columns found, not the entries of the list
RECURSIVE ApplyColumnOrderCompacted(_, _, _)
ApplyColumnOrderCompacted(cols, ids, idx) ==
    IF ids = <<>> THEN cols
    ELSE IF Head(ids) \in DOMAIN cols
    THEN ApplyColumnOrderCompacted([cols EXCEPT ![Head(ids)].position_index = idx],
                                   Tail(ids), idx + 1)
    ELSE ApplyColumnOrderCompacted(cols, Tail(ids), idx)

\* a loop in which the first write to a column stands: the entries of the
\* list are applied from the last to the first
RECURSIVE ApplyColumnOrderFirstWins(_, _, _)
ApplyColumnOrderFirstWins(cols, ids, idx) ==
    IF ids = <<>> THEN cols
    ELSE LET rest == ApplyColumnOrderFirstWins(cols, Tail(ids), idx + 1)
         IN  IF Head(ids) \in DOMAIN rest
             THEN [rest EXCEPT ![Head(ids)].position_index = idx] ELSE rest

\* the loop followed by a normalization pass over all the columns (rows of
\* equal position in the order of their ids)
RECURSIVE ApplyColumnOrderThenNormalise(_, _, _)
ApplyColumnOrderThenNormalise(cols, ids, idx) ==
    IF ids = <<>>
    THEN [c \in DOMAIN cols |->
            [cols[c] EXCEPT !.position_index =
                Cardinality({b \in DOMAIN cols :
                    \/ cols[b].position_index < cols[c].position_index
                    \/ cols[b].position_index = cols[c].position_index /\ b < c})]]
    ELSE ApplyColumnOrderThenNormalise(
            IF Head(ids) \in DOMAIN cols
            THEN [cols EXCEPT ![Head(ids)].position_index = idx] ELSE cols,
            Tail(ids), idx + 1)

\* for idx, col_id in enumerate(ordered_ids): if col: col.position_index = idx
RECURSIVE ApplyColumnOrder(_, _, _)
ApplyColumnOrder(cols, ids, idx) ==
    IF ids = <<>> THEN cols
    ELSE ApplyColumnOrder(
            IF Head(ids) \in DOMAIN cols
            THEN [cols EXCEPT ![Head(ids)].position_index = idx] ELSE cols,
            Tail(ids), idx + 1)

reorder_columns(ordered_ids) ==
       LET req(status) ==
               [Request("reorder_columns", status, 0, 0, ordered_ids.v, "none")
                   EXCEPT !.body = <<ordered_ids.t,
                                     IF Truthy(ordered_ids) THEN "nonempty" ELSE "empty">>]
       IN  IF ordered_ids.t # "list" \/ ~Truthy(ordered_ids)
           THEN Return(pending, req(BAD_REQUEST))
           ELSE Commit(ApplyColumnOrder(columns, ordered_ids.v, 0), SessionCards, req(OK))

----------------------------------------------------------------------------
\* Cards

\* the label_color check of create_card
CreateColorRejected(label_color) ==
    /\ Truthy(label_color)
    /\ \/ label_color.t # "str"
       \/ ~StartsWithHash(label_color.v)
       \/ StrLen(label_color.v) \notin {4, 7}

\* the label_color check of update_card
UpdateColorRejected(lc) ==
    /\ lc.t # "null"
    /\ \/ lc.t # "str"
       \/ ~StartsWithHash(lc.v)
       \/ StrLen(lc.v) \notin {4, 7}

\* the value stored for an optional label_color
StoredColor(label_color) == IF label_color.t = "absent" THEN JNull ELSE label_color

create_card(column_id, title, description, label_color) ==
       LET t == Strip(OrEmpty(title))
           d == Strip(OrEmpty(description))
           req(status) ==
               [Request("create_card", status, NextId(cards), column_id, <<>>, "none")
                   EXCEPT !.body = <<title, label_color>>]
       IN  IF column_id \notin DOMAIN columns
           THEN Return(pending, req(NOT_FOUND))
           ELSE IF t = StrEmpty \/ StrLen(t) > CardTitleMax
           THEN Return(pending, req(BAD_REQUEST))
           ELSE IF CreateColorRejected(label_color)
           THEN Return(pending, req(BAD_REQUEST))
           ELSE /\ NextId(cards) <= MaxCardId
                /\ LET max_pos == AppendPosition(
                                      PositionsOf(SessionCards, CardsOf(SessionCards, column_id)))
                        id == NextId(cards)
                    IN  Commit(columns,
                               [c \in DOMAIN cards \cup {id} |->
                                   IF c = id
                                   THEN CardRow(t, d, column_id, max_pos, StoredColor(label_color))
                                   ELSE SessionCards[c]],
                               req(CREATED))

delete_card(card_id) ==
       LET req(status) == Request("delete_card", status, card_id, 0, <<>>, "none")
       IN  IF card_id \notin DOMAIN cards
           THEN Return(pending, req(NOT_FOUND))
           ELSE LET column_id == SessionCards[card_id].column_id
                    left == [c \in DOMAIN cards \ {card_id} |-> SessionCards[c]]
                IN  \E f \in CardChoices(left, column_id) :
                       Commit(columns, _normalise_card_positions(left, column_id, f),
                              req(NO_CONTENT))

\* the session's writes after an attribute assignment: a row equal to the
\* committed row is not dirty
Dirty(card_id, row) ==
    IF row = cards[card_id]
    THEN [c \in DOMAIN pending \ {card_id} |-> pending[c]]
    ELSE [c \in DOMAIN pending \cup {card_id} |-> IF c = card_id THEN row ELSE pending[c]]

update_card(card_id, title, description, label_color) ==
       LET req(status) ==
               [Request("update_card", status, card_id, 0, <<>>, "none")
                   EXCEPT !.body = <<title, label_color>>]
       IN  IF card_id \notin DOMAIN cards
           THEN Return(pending, req(NOT_FOUND))
           ELSE
           LET card0 == SessionCards[card_id]
               new_title == Strip(OrEmpty(title))
               card1 == IF title.t # "absent" THEN [card0 EXCEPT !.title = new_title] ELSE card0
               card2 == IF description.t # "absent"
                        THEN [card1 EXCEPT !.description = Strip(OrEmpty(description))]
                        ELSE card1
               card3 == IF label_color.t # "absent"
                        THEN [card2 EXCEPT !.label_color = label_color]
                        ELSE card2
           IN  IF title.t # "absent" /\ (new_title = StrEmpty \/ StrLen(new_title) > CardTitleMax)
               THEN Return(pending, req(BAD_REQUEST))
               ELSE IF label_color.t # "absent" /\ UpdateColorRejected(label_color)
               THEN Return(Dirty(card_id, card2), req(BAD_REQUEST))
               ELSE Commit(columns, [SessionCards EXCEPT ![card_id] = card3], req(OK))

\* the loop followed by a normalization pass over the target column (cards of
\* equal position in the order of their ids)
RECURSIVE ApplyCardOrderThenNormalise(_, _, _, _)
ApplyCardOrderThenNormalise(cs, target_column_id, ids, idx) ==
    IF ids = <<>>
    THEN [c \in DOMAIN cs |->
            IF cs[c].column_id # target_column_id THEN cs[c]
            ELSE [cs[c] EXCEPT !.position_index =
                    Cardinality({b \in DOMAIN cs :
                        /\ cs[b].column_id = target_column_id
                        /\ \/ cs[b].position_index < cs[c].position_index
                           \/ cs[b].position_index = cs[c].position_index /\ b < c})]]
    ELSE ApplyCardOrderThenNormalise(
            IF Head(ids) \in DOMAIN cs
            THEN [cs EXCEPT ![Head(ids)].column_id = target_column_id,
                            ![Head(ids)].position_index = idx]
            ELSE cs,
            target_column_id, Tail(ids), idx + 1)

\* for idx, cid in enumerate(ordered_card_ids): if target_card: column_id, position_index
RECURSIVE ApplyCardOrder(_, _, _, _)
ApplyCardOrder(cs, target_column_id, ids, idx) ==
    IF ids = <<>> THEN cs
    ELSE ApplyCardOrder(
            IF Head(ids) \in DOMAIN cs
            THEN [cs EXCEPT ![Head(ids)].column_id = target_column_id,
                            ![Head(ids)].position_index = idx]
            ELSE cs,
            target_column_id, Tail(ids), idx + 1)

\* where the try block of move_card can raise: at the query of step 2, at the
\* query of step 3, at the commit
FailPoints == {"none", "step2", "step3", "commit"}

\* the rows db.session holds when the try block of move_card stops at `fail`
MoveWritten(fail, step1, step2, step3) ==
    CASE fail = "step2" -> step1
      [] fail = "step3" -> step2
      [] OTHER -> step3

\* an except branch that keeps the writes made so far and commits them
MoveOutcomeNoRollback(fail, written, done, failed) ==
    IF fail = "none" THEN Commit(columns, written, done) ELSE Commit(columns, written, failed)

\* try: ... db.session.commit()  except: db.session.rollback()
MoveOutcome(fail, written, done, failed) ==
    IF fail = "none" THEN Commit(columns, written, done) ELSE Rollback(failed)

\* Step 1 moved above the lookup of the target column
TargetNotFoundAfterStep1(card_id, target_column_id, req) ==
    Return(Dirty(card_id, [SessionCards[card_id] EXCEPT !.column_id = target_column_id]), req)

\* target_column is None: return _json_error("Target column not found.", NOT_FOUND)
TargetNotFound(card_id, target_column_id, req) == Return(pending, req)

\* data.get(key) without the default
GetWithoutDefault(j, default) == j

\* data.get(key, default): the default for a key the body does not have
GetOr(j, default) == IF j.t = "absent" THEN default ELSE j

move_card(card_id, target_column_id_in, ordered_card_ids_in, fail) ==
       LET target_column_id == GetOr(target_column_id_in, JNull)
           ordered_card_ids == GetOr(ordered_card_ids_in, JList(<<>>))
           req(status) ==
               [Request("move_card", status, card_id,
                        IF target_column_id.t = "int" THEN target_column_id.v ELSE 0,
                        ordered_card_ids.v, fail)
                   EXCEPT !.body = <<target_column_id_in.t, ordered_card_ids_in.t>>]
       IN  IF card_id \notin DOMAIN cards
           THEN fail = "none" /\ Return(pending, req(NOT_FOUND))
           ELSE IF target_column_id.t = "null"
           THEN fail = "none" /\ Return(pending, req(BAD_REQUEST))
           ELSE IF ordered_card_ids.t # "list"
           THEN fail = "none" /\ Return(pending, req(BAD_REQUEST))
           ELSE IF target_column_id.v \notin DOMAIN columns
           THEN fail = "none" /\ TargetNotFound(card_id, target_column_id.v, req(NOT_FOUND))
           ELSE
           LET original_column_id == SessionCards[card_id].column_id
               \* Step 1
               step1 == [SessionCards EXCEPT ![card_id].column_id = target_column_id.v]
               \* Step 2
               step2 == IF Truthy(ordered_card_ids)
                        THEN ApplyCardOrder(step1, target_column_id.v, ordered_card_ids.v, 0)
                        ELSE step1
               \* Step 3
               step3s == IF original_column_id # target_column_id.v
                         THEN {_normalise_card_positions(step2, original_column_id, f) :
                                  f \in CardChoices(step2, original_column_id)}
                         ELSE {step2}
           IN  /\ fail = "step2" => Truthy(ordered_card_ids)
               /\ fail = "step3" => original_column_id # target_column_id.v
               /\ \E step3 \in step3s :
                      MoveOutcome(fail, MoveWritten(fail, step1, step2, step3),
                                  req(OK), req(INTERNAL_SERVER_ERROR))

\* The request ends. db.init_app registers db.session.remove() for the end of
\* the application context: the session and its uncommitted writes go when the
\* context is popped (removed), and stay when the context outlives the request.
end_request(removed) ==
    /\ last # NoRequest
    /\ UNCHANGED <<columns, cards>>
    /\ pending' = IF removed THEN NoPending ELSE pending
    /\ last' = NoRequest
    /\ prev' = NoStore
    /\ UNCHANGED inflight

\* A call of _normalise_column_positions() with the commit of its caller.
normalise_columns ==
    \E f \in ColumnChoices(columns) :
        Commit(_normalise_column_positions(columns, f), SessionCards,
               Request("_normalise_column_positions", 0, 0, 0, <<>>, "none"))

\* A call of _normalise_card_positions(column_id) with the commit of its caller.
normalise_cards(column_id) ==
    \E f \in CardChoices(SessionCards, column_id) :
        Commit(columns, _normalise_card_positions(SessionCards, column_id, f),
               Request("_normalise_card_positions", 0, 0, column_id, <<>>, "none"))

----------------------------------------------------------------------------
\* Requests handled at the same time. Each request has a session and a
\* connection of its own. The pysqlite driver opens no transaction for a
\* SELECT: what a handler reads before its first write is read outside the
\* transaction that the flush opens, and the flush, the queries after it and
\* the commit run under the write lock of the database, one request at a
\* time.

\* the two requests in flight at most
Workers == {1, 2}

\* the record of a request in flight: status 0 until it has returned
Flight(op, id, ids, title, max_pos, seen, status) ==
    [op |-> op, id |-> id, ids |-> ids, title |-> title, max_pos |-> max_pos,
     seen |-> seen, status |-> status]

Running(w) == w \in DOMAIN inflight /\ inflight[w].status = 0

\* the handler of worker w has read and validated: flight is what it holds
Begin(w, flight) ==
    /\ w \notin DOMAIN inflight
    /\ inflight' = [v \in DOMAIN inflight \cup {w} |-> IF v = w THEN flight ELSE inflight[v]]
    /\ prev' = IF DOMAIN inflight = {} THEN Store ELSE prev
    /\ UNCHANGED <<columns, cards, pending, last>>

\* the handler of worker w has flushed and committed cols, or rolled back,
\* and returned status
Finish(w, cols, status, id) ==
    /\ columns' = cols
    /\ inflight' = [inflight EXCEPT ![w].status = status, ![w].id = id]
    /\ UNCHANGED <<cards, pending, last, prev>>

\* create_column up to the query of max_pos
begin_create_column(w, title) ==
    LET t == Strip(OrEmpty(title))
        max_pos == OrMinusOne(PositionsOf(columns, DOMAIN columns))
    IN  /\ t # StrEmpty /\ StrLen(t) <= ColumnTitleMax
        /\ max_pos + 1 <= MaxColumnId
        /\ Begin(w, Flight("create_column", 0, <<>>, t, max_pos, <<>>, 0))

\* create_column from db.session.add(column) on: the INSERT and the commit
finish_create_column(w) ==
    /\ Running(w) /\ inflight[w].op = "create_column"
    /\ NextId(columns) <= MaxColumnId
    /\ LET id == NextId(columns)
       IN  Finish(w, [c \in DOMAIN columns \cup {id} |->
                         IF c = id THEN ColumnRow(inflight[w].title, inflight[w].max_pos + 1)
                         ELSE columns[c]],
                  CREATED, id)

\* delete_column up to db.session.get(Column, column_id)
begin_delete_column(w, column_id) ==
    Begin(w, Flight("delete_column", column_id, <<>>, StrEmpty, 0, <<>>,
                    IF column_id \in DOMAIN columns THEN 0 ELSE NOT_FOUND))

\* delete_column from db.session.delete(column) on: the DELETE of the flush
\* (a DELETE that matches no row is a warning of the ORM, not an error), the
\* normalizer on the rows it then queries, the commit
finish_delete_column(w) ==
    /\ Running(w) /\ inflight[w].op = "delete_column"
    /\ LET left == [c \in DOMAIN columns \ {inflight[w].id} |-> columns[c]]
       IN  \E f \in ColumnChoices(left) :
              Finish(w, _normalise_column_positions(left, f), NO_CONTENT, inflight[w].id)

\* reorder_columns up to the query that builds columns_by_id
begin_reorder_columns(w, ordered_ids) ==
    /\ ordered_ids.t = "list" /\ Truthy(ordered_ids)
    /\ Begin(w, Flight("reorder_columns", 0, ordered_ids.v, StrEmpty, 0,
                       [c \in {ordered_ids.v[i] : i \in 1..Len(ordered_ids.v)} \cap DOMAIN columns
                           |-> columns[c]],
                       0))

\* reorder_columns from the loop on: the loop writes to the rows the session
\* loaded, the flush sends an UPDATE for each row whose position_index is no
\* longer the value loaded (an UPDATE that matches no row raises, and the
\* except branch rolls back), then the commit
finish_reorder_columns(w) ==
    /\ Running(w) /\ inflight[w].op = "reorder_columns"
    /\ LET seen == inflight[w].seen
           written == ApplyColumnOrder(seen, inflight[w].ids, 0)
           changed == {c \in DOMAIN seen :
                          written[c].position_index # seen[c].position_index}
       IN  IF changed \subseteq DOMAIN columns
           THEN Finish(w, [c \in DOMAIN columns |->
                              IF c \in changed
                              THEN [columns[c] EXCEPT
                                       !.position_index = written[c].position_index]
                              ELSE columns[c]],
                       OK, 0)
           ELSE Finish(w, columns, INTERNAL_SERVER_ERROR, 0)

\* the requests in flight have all returned
end_requests ==
    /\ DOMAIN inflight # {}
    /\ \A w \in DOMAIN inflight : ~Running(w)
    /\ inflight' = <<>>
    /\ prev' = NoStore
    /\ UNCHANGED <<columns, cards, pending, last>>

----------------------------------------------------------------------------
\* Request inputs

\* "a", " bb  ", "  ", "#fff", "red"
TitleA == <<<<"a", 1>>>>
TitleB == <<<<" ", 1>>, <<"b", 2>>, <<" ", 2>>>>
Blank == <<<<" ", 2>>>>
HashFff == <<<<"#", 1>>, <<"f", 3>>>>
Red == <<<<"r", 1>>, <<"e", 1>>, <<"d", 1>>>>

\* "", "#ab", "#aabbcc", and "aaa...a" of n characters
Empty == StrEmpty
HashAb == <<<<"#", 1>>, <<"a", 1>>, <<"b", 1>>>>
HashAabbcc == <<<<"#", 1>>, <<"a", 2>>, <<"b", 2>>, <<"c", 2>>>>
Long(n) == <<<<"a", n>>>>
\* " aaa...a  " of n characters between the spaces
Padded(n) == <<<<" ", 1>>, <<"a", n>>, <<" ", 2>>>>

\* lists of at most n ids
IdLists(ids, n) == UNION {[1..m -> ids] : m \in 0..n}

ColumnLists == IdLists(ColumnIds, MaxOrderedIds)
CardLists == IdLists(CardIds, MaxOrderedCardIds)

RequestEnds == \E removed \in BOOLEAN : end_request(removed)

\* a request is handled to its end before the next one is taken
Idle == last = NoRequest

\* Requests on the columns of a board that holds no card.
NextColumns ==
    \/ Idle /\ \E title \in {JStr(TitleA), JStr(Blank)} : create_column(title)
    \/ Idle /\ \E c \in ColumnIds : delete_column(c)
    \/ Idle /\ \E l \in ColumnLists : reorder_columns(JList(l))
    \/ RequestEnds

SpecColumns == Init /\ [][NextColumns]_vars

\* Requests on the cards of a board, and the deletion of its columns.
Next ==
    \/ Idle /\ \E c \in ColumnIds, title \in {JStr(TitleA), JAbsent} :
                create_card(c, title, JAbsent, JAbsent)
    \/ Idle /\ \E k \in CardIds : delete_card(k)
    \/ Idle /\ \E k \in CardIds, c \in ColumnIds, l \in CardLists, fail \in FailPoints :
                move_card(k, JInt(c), JList(l), fail)
    \/ Idle /\ \E c \in ColumnIds : delete_column(c)
    \/ RequestEnds

Spec == Init /\ [][Next]_vars

\* Reorders: of the columns, and of the cards of the first column; the last
\* column may be deleted.
NextReorder ==
    \/ Idle /\ \E l \in ColumnLists : reorder_columns(JList(l))
    \/ Idle /\ delete_column(MaxColumnId)
    \/ Idle /\ create_card(1, JStr(TitleA), JAbsent, JAbsent)
    \/ Idle /\ \E k \in CardIds, l \in CardLists : move_card(k, JInt(1), JList(l), "none")
    \/ RequestEnds

SpecReorder == Init /\ [][NextReorder]_vars

\* Requests on the content fields: titles, descriptions, label colours.
NextContent ==
    \/ Idle /\ \E title \in {JStr(TitleA), JStr(Blank), JAbsent} : create_column(title)
    \/ Idle /\ \E c \in {1, MaxColumnId}, title \in {JStr(TitleB), JStr(Blank), JNull} :
                update_column(c, title)
    \/ Idle /\ \E title \in {JStr(TitleA), JStr(Blank), JAbsent},
                   label_color \in {JAbsent, JStr(HashFff), JStr(Red)} :
                create_card(1, title, JAbsent, label_color)
    \/ Idle /\ \E k \in CardIds,
                   title \in {JAbsent, JStr(TitleB), JStr(Blank)},
                   description \in {JAbsent, JStr(TitleA)},
                   label_color \in {JAbsent, JNull, JStr(HashFff), JStr(Red)} :
                update_card(k, title, description, label_color)
    \/ RequestEnds

SpecContent == Init /\ [][NextContent]_vars

\* The position normalizer on its own, on scopes that reorders, moves and
\* creations have left with gaps and with equal positions.
NextNormalise ==
    \/ Idle /\ \E l \in ColumnLists : reorder_columns(JList(l))
    \/ Idle /\ \E c \in {1, 2} : create_card(c, JStr(TitleA), JAbsent, JAbsent)
    \/ Idle /\ \E k \in CardIds, l \in CardLists : move_card(k, JInt(1), JList(l), "none")
    \/ Idle /\ delete_column(MaxColumnId)
    \/ Idle /\ normalise_columns
    \/ Idle /\ \E c \in ColumnIds : normalise_cards(c)
    \/ RequestEnds

SpecNormalise == Init /\ [][NextNormalise]_vars

\* Titles at the length ceilings and label colours of every kind.
ColumnTitles ==
    {JStr(Blank), JStr(Long(ColumnTitleMax)), JStr(Padded(ColumnTitleMax)),
     JStr(Long(ColumnTitleMax + 1)), JNull}
CardTitles == {JStr(Blank), JStr(Long(CardTitleMax)), JStr(Long(CardTitleMax + 1)), JStr(TitleA)}
LabelColors ==
    {JAbsent, JNull, JStr(Empty), JStr(Red), JStr(HashAb), JStr(HashFff), JStr(HashAabbcc)}

NextValidation ==
    \/ Idle /\ \E title \in ColumnTitles : create_column(title)
    \/ Idle /\ \E title \in ColumnTitles : update_column(1, title)
    \/ Idle /\ delete_column(MaxColumnId)
    \/ Idle /\ \E title \in CardTitles, label_color \in LabelColors :
                create_card(1, title, JAbsent, label_color)
    \/ Idle /\ \E k \in CardIds, title \in CardTitles \cup {JAbsent}, label_color \in LabelColors :
                update_card(k, title, JAbsent, label_color)
    \/ RequestEnds

SpecValidation == Init /\ [][NextValidation]_vars

\* the lists that name MaxOrderedIds columns, each once
FullColumnLists ==
    {l \in ColumnLists : Len(l) = MaxOrderedIds /\ \A i, j \in 1..Len(l) : l[i] = l[j] => i = j}

\* Two requests on the columns at a time, their steps interleaved.
NextConcurrent ==
    \/ \E w \in Workers : begin_create_column(w, JStr(TitleA))
    \/ \E w \in Workers : finish_create_column(w)
    \/ \E w \in Workers, c \in ColumnIds : begin_delete_column(w, c)
    \/ \E w \in Workers : finish_delete_column(w)
    \/ \E w \in Workers, l \in FullColumnLists : begin_reorder_columns(w, JList(l))
    \/ \E w \in Workers : finish_reorder_columns(w)
    \/ end_requests

SpecConcurrent == Init /\ [][NextConcurrent]_vars

\* Requests that name entities the store may not hold, and move requests
\* whose body lacks target_column_id or carries an ordered_card_ids that is
\* not a list.
NextMissing ==
    \/ Idle /\ \E c \in ColumnIds : create_card(c, JStr(TitleA), JAbsent, JAbsent)
    \/ Idle /\ \E c \in {1, MaxColumnId} : update_column(c, JStr(TitleA))
    \/ Idle /\ \E c \in ColumnIds : delete_column(c)
    \/ Idle /\ \E k \in CardIds : update_card(k, JStr(TitleB), JAbsent, JAbsent)
    \/ Idle /\ \E k \in CardIds : delete_card(k)
    \/ Idle /\ \E k \in CardIds :
                \E target \in {JInt(c) : c \in ColumnIds} \cup {JNull, JAbsent},
                   l \in {JList(<<>>), JList(<<k>>), JAbsent, JNull, JStr(TitleA)} :
                    move_card(k, target, l, "none")
    \/ RequestEnds

SpecMissing == Init /\ [][NextMissing]_vars

\* the cards of a board that holds one card more than the lists can name
BoardCardIds == 1..(MaxCardId + 1)

\* A board after creations and moves: the seeded columns, and every card in
\* some column at some position that a list can give (a move within a column
\* puts a card at any index of its list and touches no other card).
InitBoard ==
    /\ columns = [i \in 1..Len(DefaultTitles) |-> ColumnRow(DefaultTitles[i], i - 1)]
    /\ cards \in [BoardCardIds ->
                    {CardRow(TitleA, StrEmpty, c, p, JNull) :
                        c \in 1..Len(DefaultTitles), p \in 0..(MaxOrderedCardIds - 1)}]
    /\ pending = NoPending
    /\ last = NoRequest
    /\ prev = NoStore
    /\ inflight = <<>>

\* Moves of the cards of such a board, with a list, with an empty list and
\* without a list.
NextMove ==
    \/ Idle /\ \E k \in BoardCardIds, c \in ColumnIds, l \in CardLists :
                move_card(k, JInt(c), JList(l), "none")
    \/ Idle /\ \E k \in BoardCardIds, c \in ColumnIds : move_card(k, JInt(c), JAbsent, "none")
    \/ RequestEnds

SpecMove == InitBoard /\ [][NextMove]_vars

----------------------------------------------------------------------------
\* Vocabulary of the properties

Succeeded == last.status \in Success

\* dense ordering: the positions of the rows `ids` are exactly 0..count-1
ScopeDense(rows, ids) == PositionsOf(rows, ids) = 0..(Cardinality(ids) - 1)

ColumnsDense(cols) == ScopeDense(cols, DOMAIN cols)

CardsDense(cs) == \A c \in {cs[k].column_id : k \in DOMAIN cs} : ScopeDense(cs, CardsOf(cs, c))

\* the list l names each of `ids` exactly once and nothing else
NamesEachOnce(l, ids) == Len(l) = Cardinality(ids) /\ {l[i] : i \in 1..Len(l)} = ids

\* the rows `ids` are in the same relative order before and after
SameOrder(before, after, ids) ==
    \A a, b \in ids :
        before[a].position_index < before[b].position_index
            => after[a].position_index < after[b].position_index

\* the column a card was in before the last request
ColumnBefore(card_id) == prev.cards[card_id].column_id

\* the last request was a move_card that committed
Moved == last.op = "move_card" /\ last.status = OK

\* the list of the last move named the moved card and the cards of the target
FullMoveList == NamesEachOnce(last.ids, CardsOf(prev.cards, last.target) \cup {last.id})

----------------------------------------------------------------------------
\* C1: column density (I1). The columns' position_index values are exactly
\* 0..N-1 after every request: no create_column, delete_column or
\* reorder_columns with a complete list takes a dense column set to a column
\* set that is not dense.
C1_ColumnDensity ==
    (/\ last.op \in {"create_column", "delete_column", "reorder_columns"}
     /\ Succeeded
     /\ ColumnsDense(prev.columns)
     /\ last.op = "reorder_columns" => NamesEachOnce(last.ids, DOMAIN prev.columns))
        => ColumnsDense(columns)

\* C2: card density (I2). In every column the cards' position_index values are
\* exactly 0..M-1 after every request: no create_card, delete_card, delete_column
\* or move_card with a complete list takes a board whose columns are all
\* dense to one with a column that is not.
C2_CardDensity ==
    (/\ last.op \in {"create_card", "delete_card", "delete_column", "move_card"}
     /\ Succeeded
     /\ CardsDense(prev.cards)
     /\ last.op = "move_card" => FullMoveList)
        => CardsDense(cards)

\* C3: append on create (P2). A created column or card gets the largest
\* position_index of its scope plus one, and 0 when the scope is empty; also
\* when that largest position_index is 0.
C3_AppendOnCreate ==
    /\ (last.op = "create_column" /\ last.status = CREATED)
            => columns[last.id].position_index =
                  IF DOMAIN prev.columns = {} THEN 0
                  ELSE SetMax(PositionsOf(prev.columns, DOMAIN prev.columns)) + 1
    /\ (last.op = "create_card" /\ last.status = CREATED)
            => cards[last.id].position_index =
                  IF CardsOf(prev.cards, last.target) = {} THEN 0
                  ELSE SetMax(PositionsOf(prev.cards, CardsOf(prev.cards, last.target))) + 1

\* C4: delete renormalizes (P3). After a column or a card at position p is
\* deleted from a dense scope, every survivor that was above p is one lower,
\* every survivor that was below p is where it was, and the survivors are in
\* the order they were in.
C4_DeleteRenormalises ==
    /\ (last.op = "delete_column" /\ last.status = NO_CONTENT /\ ColumnsDense(prev.columns))
            => LET p == prev.columns[last.id].position_index
                   survivors == DOMAIN prev.columns \ {last.id}
               IN  /\ DOMAIN columns = survivors
                   /\ \A c \in survivors :
                          columns[c].position_index =
                              IF prev.columns[c].position_index > p
                              THEN prev.columns[c].position_index - 1
                              ELSE prev.columns[c].position_index
                   /\ SameOrder(prev.columns, columns, survivors)
    /\ (/\ last.op = "delete_card" /\ last.status = NO_CONTENT
        /\ ScopeDense(prev.cards, CardsOf(prev.cards, ColumnBefore(last.id))))
            => LET p == prev.cards[last.id].position_index
                   survivors == CardsOf(prev.cards, ColumnBefore(last.id)) \ {last.id}
               IN  /\ CardsOf(cards, ColumnBefore(last.id)) = survivors
                   /\ \A k \in survivors :
                          cards[k].position_index =
                              IF prev.cards[k].position_index > p
                              THEN prev.cards[k].position_index - 1
                              ELSE prev.cards[k].position_index
                   /\ SameOrder(prev.cards, cards, survivors)

\* a card was deleted from below another card of a dense column; the other
\* card has moved down
C4_Witness ==
    /\ last.op = "delete_card" /\ last.status = NO_CONTENT
    /\ ScopeDense(prev.cards, CardsOf(prev.cards, ColumnBefore(last.id)))
    /\ \E k \in DOMAIN cards :
          /\ cards[k].column_id = ColumnBefore(last.id)
          /\ prev.cards[k].position_index > prev.cards[last.id].position_index
          /\ cards[k].position_index = prev.cards[k].position_index - 1

\* C5: reorder is a bijection (P4). When reorder_columns is given a list that
\* names each column exactly once, or move_card within one column a list that
\* names each card of the column exactly once, the entity at list index i has
\* position_index i afterwards, and the scope is dense.
C5_ReorderBijection ==
    /\ (/\ last.op = "reorder_columns" /\ last.status = OK
        /\ NamesEachOnce(last.ids, DOMAIN prev.columns))
            => /\ \A i \in 1..Len(last.ids) : columns[last.ids[i]].position_index = i - 1
               /\ ColumnsDense(columns)
    /\ (/\ Moved /\ last.target = ColumnBefore(last.id)
        /\ NamesEachOnce(last.ids, CardsOf(prev.cards, last.target)))
            => /\ \A i \in 1..Len(last.ids) : cards[last.ids[i]].position_index = i - 1
               /\ CardsOf(cards, last.target) = CardsOf(prev.cards, last.target)
               /\ ScopeDense(cards, CardsOf(cards, last.target))

\* two cards of one column were put in a new order by a complete list
C5_Witness ==
    /\ Moved /\ last.target = ColumnBefore(last.id)
    /\ Len(last.ids) >= 2
    /\ NamesEachOnce(last.ids, CardsOf(prev.cards, last.target))
    /\ cards[last.ids[1]].position_index # prev.cards[last.ids[1]].position_index

C7_ReferentialIntegrity ==
    /\ \A k \in DOMAIN cards : cards[k].column_id \in DOMAIN columns
    /\ \A k \in DOMAIN SessionCards : SessionCards[k].column_id \in DOMAIN columns

\* a column that held a card was deleted
C7_Witness ==
    /\ last.op = "delete_column" /\ last.status = NO_CONTENT
    /\ CardsOf(prev.cards, last.id) # {}

\* C8: cascade delete. delete_column(C) removes column C and exactly the cards
\* whose column_id is C in one commit; every other card keeps its row.
C8_CascadeDelete ==
    (last.op = "delete_column" /\ last.status = NO_CONTENT)
        => /\ DOMAIN columns = DOMAIN prev.columns \ {last.id}
           /\ DOMAIN cards = DOMAIN prev.cards \ CardsOf(prev.cards, last.id)
           /\ \A k \in DOMAIN cards : cards[k] = prev.cards[k]

\* a column that held a card was deleted while another column held a card
C8_Witness ==
    /\ last.op = "delete_column" /\ last.status = NO_CONTENT
    /\ CardsOf(prev.cards, last.id) # {}
    /\ DOMAIN cards # {}

\* C9: atomicity of a move. When move_card fails after any prefix of its three
\* steps, the committed store is the store before the move and the session
\* holds no write of it.
C9_MoveAtomic ==
    (last.op = "move_card" /\ last.status = INTERNAL_SERVER_ERROR)
        => /\ columns = prev.columns
           /\ cards = prev.cards
           /\ pending = NoPending

\* a move to another column failed at its commit, after the three steps
C9_Witness ==
    /\ last.op = "move_card" /\ last.status = INTERNAL_SERVER_ERROR
    /\ last.fail = "commit"
    /\ last.target # cards[last.id].column_id
    /\ CardsOf(cards, cards[last.id].column_id) # {last.id}

\* C10: validation fails fast. A create_column, update_column, create_card or
\* update_card that answers 400 has changed no field of any entity: not in
\* the committed rows, and not in the rows the session holds.
C10_ValidationNoWrites ==
    (/\ last.op \in {"create_column", "update_column", "create_card", "update_card"}
     /\ last.status = BAD_REQUEST)
        => /\ columns = prev.columns
           /\ cards = prev.cards
           /\ pending = prev.pending

\* the last request named a column (a card) the store did not hold
ColumnMissing(column_id) == column_id \notin DOMAIN prev.columns
CardMissing(card_id) == card_id \notin DOMAIN prev.cards

\* the committed rows and the session's writes are what they were before the
\* last request
StoreUnchanged == columns = prev.columns /\ cards = prev.cards /\ pending = prev.pending

\* the last move_card carried no target_column_id (the key absent, or null)
MoveWithoutTarget == last.op = "move_card" /\ last.body[1] \in {"absent", "null"}

\* the last move_card carried an ordered_card_ids that is not a list
MoveWithBadList == last.op = "move_card" /\ last.body[2] \notin {"absent", "list"}

\* C11: not-found and bad-request outcomes leave the store unchanged. Update
\* or delete of a missing column or card, create_card in a missing column
\* and move_card of a missing card or to a missing target column answer 404;
\* move_card of a card the store holds with no target_column_id or with an
\* ordered_card_ids that is not a list answers 400; after each of these
\* answers no entity has been created, deleted or modified.
C11_ErrorsLeaveStore ==
    /\ (last.op \in {"update_column", "delete_column"} /\ ColumnMissing(last.id))
            => last.status = NOT_FOUND
    /\ (last.op \in {"update_card", "delete_card", "move_card"} /\ CardMissing(last.id))
            => last.status = NOT_FOUND
    /\ (last.op = "create_card" /\ ColumnMissing(last.target))
            => last.status = NOT_FOUND
    /\ (last.op = "move_card" /\ ~CardMissing(last.id) /\ (MoveWithoutTarget \/ MoveWithBadList))
            => last.status = BAD_REQUEST
    /\ (/\ last.op = "move_card" /\ ~CardMissing(last.id)
        /\ ~MoveWithoutTarget /\ ~MoveWithBadList /\ ColumnMissing(last.target))
            => last.status = NOT_FOUND
    /\ (last.status = NOT_FOUND \/ (last.op = "move_card" /\ last.status = BAD_REQUEST))
            => StoreUnchanged

\* a card the store holds was asked to move to a column that had been deleted
C11_Witness ==
    /\ last.op = "move_card" /\ last.status = NOT_FOUND
    /\ ~CardMissing(last.id)
    /\ last.body = <<"int", "list">>
    /\ ColumnMissing(last.target)
    /\ DOMAIN cards # {}

\* the list l names an id that is not among `ids`
NamesMissing(l, ids) == \E i \in 1..Len(l) : l[i] \notin ids

\* entry i of the list l is the only entry for its id
OnlyEntry(l, i) == \A j \in 1..Len(l) : l[j] = l[i] => j = i

\* the last request was a reorder_columns that committed
Reordered == last.op = "reorder_columns" /\ last.status = OK

\* C12: reorder leniency. A reorder_columns whose non-empty list names ids that
\* are not in the store, and a move_card whose ordered_card_ids does, still
\* answer 200 and commit; each listed id that is in the store (and is listed
\* once) has position_index equal to its own index in the list, the skipped
\* ids not counted out; no column or card exists afterwards that did not
\* exist before.
C12_ReorderLeniency ==
    /\ (last.op = "reorder_columns" /\ last.body = <<"list", "nonempty">>) => last.status = OK
    /\ (/\ last.op = "move_card" /\ last.fail = "none" /\ last.body = <<"int", "list">>
        /\ ~CardMissing(last.id) /\ ~ColumnMissing(last.target)) => last.status = OK
    /\ (Reordered /\ NamesMissing(last.ids, DOMAIN prev.columns))
            => /\ DOMAIN columns = DOMAIN prev.columns
               /\ DOMAIN cards = DOMAIN prev.cards
               /\ \A i \in 1..Len(last.ids) :
                      (last.ids[i] \in DOMAIN columns /\ OnlyEntry(last.ids, i))
                          => columns[last.ids[i]].position_index = i - 1
    /\ (Moved /\ NamesMissing(last.ids, DOMAIN prev.cards))
            => /\ DOMAIN columns = DOMAIN prev.columns
               /\ DOMAIN cards = DOMAIN prev.cards
               /\ \A i \in 1..Len(last.ids) :
                      (last.ids[i] \in DOMAIN cards /\ OnlyEntry(last.ids, i))
                          => /\ cards[last.ids[i]].position_index = i - 1
                             /\ cards[last.ids[i]].column_id = last.target

\* a reorder_columns list named a deleted column first and a column of the
\* store second: that column is at position 1
C12_Witness ==
    /\ Reordered
    /\ Len(last.ids) >= 2
    /\ last.ids[1] \notin DOMAIN prev.columns
    /\ last.ids[2] \in DOMAIN columns
    /\ OnlyEntry(last.ids, 2)
    /\ columns[last.ids[2]].position_index = 1
    /\ prev.columns[last.ids[2]].position_index # 1

\* the list l has two entries for one id
HasDuplicate(l) == \E i \in 1..Len(l) : ~OnlyEntry(l, i)

\* entry i of the list l is the last entry for its id
LastEntry(l, i) == \A j \in 1..Len(l) : l[j] = l[i] => j <= i

\* a reorder_columns with a non-empty list, and a move_card of a card of the
\* store to a column of the store with a list, answer 200 whatever the list
\* names
ListAccepted ==
    /\ (last.op = "reorder_columns" /\ last.body = <<"list", "nonempty">>) => last.status = OK
    /\ (/\ last.op = "move_card" /\ last.fail = "none" /\ last.body = <<"int", "list">>
        /\ ~CardMissing(last.id) /\ ~ColumnMissing(last.target)) => last.status = OK

\* C13: duplicates in a reorder list. A reorder_columns or a move_card whose
\* list has an id more than once answers 200, and every listed entity of the
\* store has the 0-based index of the last entry for its id as its committed
\* position_index.
C13_LastOccurrenceWins ==
    /\ ListAccepted
    /\ (Reordered /\ HasDuplicate(last.ids))
            => \A i \in 1..Len(last.ids) :
                  (last.ids[i] \in DOMAIN columns /\ LastEntry(last.ids, i))
                      => columns[last.ids[i]].position_index = i - 1
    /\ (Moved /\ HasDuplicate(last.ids))
            => \A i \in 1..Len(last.ids) :
                  (last.ids[i] \in DOMAIN cards /\ LastEntry(last.ids, i))
                      => /\ cards[last.ids[i]].position_index = i - 1
                         /\ cards[last.ids[i]].column_id = last.target

\* a reorder_columns list named one column first and last, and another
\* between: the first is at position 2
C13_Witness ==
    /\ Reordered
    /\ Len(last.ids) = 3
    /\ last.ids[1] = last.ids[3] /\ last.ids[2] # last.ids[1]
    /\ last.ids[1] \in DOMAIN columns /\ last.ids[2] \in DOMAIN columns
    /\ columns[last.ids[1]].position_index = 2
    /\ columns[last.ids[2]].position_index = 1

\* the normalizer has just run on the columns (on the cards of last.target)
ColumnsNormalised == last.op = "_normalise_column_positions"
CardsNormalised == last.op = "_normalise_card_positions"

\* the rows `ids` have a gap or two equal positions
NotDense(rows, ids) == ~ScopeDense(rows, ids)

\* C14: normalizer idempotence. On every scope state, gaps and equal positions
\* included, a second run of the position normalizer right after a first run
\* leaves every position_index as the first run left it.
C14_NormaliserIdempotent ==
    /\ ColumnsNormalised
            => \A f \in ColumnChoices(columns) :
                  _normalise_column_positions(columns, f) = columns
    /\ CardsNormalised
            => \A f \in CardChoices(cards, last.target) :
                  _normalise_card_positions(cards, last.target, f) = cards

\* the normalizer has run on three columns of which two were at one position
\* and none at position 1
C14_Witness ==
    /\ ColumnsNormalised
    /\ Cardinality(DOMAIN prev.columns) >= 3
    /\ 1 \notin PositionsOf(prev.columns, DOMAIN prev.columns)
    /\ \E a, b \in DOMAIN prev.columns :
          a # b /\ prev.columns[a].position_index = prev.columns[b].position_index
    /\ columns # prev.columns

\* the column sets one request leaves when it runs alone on cols
Alone(cols, r) ==
    CASE r.op = "create_column" ->
            {[c \in DOMAIN cols \cup {NextId(cols)} |->
                 IF c = NextId(cols)
                 THEN ColumnRow(r.title, AppendPosition(PositionsOf(cols, DOMAIN cols)))
                 ELSE cols[c]]}
      [] r.op = "delete_column" ->
            IF r.id \notin DOMAIN cols THEN {cols}
            ELSE LET left == [c \in DOMAIN cols \ {r.id} |-> cols[c]]
                 IN  {_normalise_column_positions(left, f) : f \in ColumnChoices(left)}
      [] OTHER -> {ApplyColumnOrder(cols, r.ids, 0)}

\* the column sets two requests leave when one runs after the other
OneAfterTheOther(cols, r1, r2) ==
    UNION {Alone(c1, r2) : c1 \in Alone(cols, r1)} \cup UNION {Alone(c2, r1) : c2 \in Alone(cols, r2)}

\* both workers have handled a request, and both requests have committed
BothCommitted == DOMAIN inflight = Workers /\ \A w \in Workers : inflight[w].status \in Success

\* C15: concurrent operations on one scope are serialized. When two mutating
\* requests on the columns have been handled at the same time and both have
\* committed, the committed columns are those that running the two requests
\* one after the other, in one order or the other, leaves (so no committed
\* state mixes the position writes of two reorders), and they are dense (I1)
\* when the two requests leave a dense column set in either order.
C15_Serialised ==
    BothCommitted
        => LET serial == OneAfterTheOther(prev.columns, inflight[1], inflight[2])
           IN  /\ columns \in serial
               /\ (\A cols \in serial : ColumnsDense(cols)) => ColumnsDense(columns)

\* a title as the validation boundary sees it: empty once the surrounding
\* whitespace is trimmed, or longer than max once trimmed
TitleInvalid(title, max) ==
    LET trimmed == Strip(OrEmpty(title))
    IN  trimmed = StrEmpty \/ StrLen(trimmed) > max

\* a label_color the validation boundary lets through: null or absent, or a
\* string that starts with "#" and has 4 or 7 characters
ColorValid(label_color) ==
    \/ label_color.t \in {"absent", "null"}
    \/ /\ label_color.t = "str"
       /\ StartsWithHash(label_color.v)
       /\ StrLen(label_color.v) \in {4, 7}

Rejected == last.status = BAD_REQUEST

\* C16: validation boundary (P6). create_column and update_column reject the
\* titles that are empty once trimmed or longer than 120 characters once
\* trimmed, and accept the others (120 characters included); create_card and
\* update_card reject such titles at 500 characters, and reject every
\* label_color that is neither null/absent nor a string starting with "#" of
\* total length 4 or 7 ("red", "#ab" and the empty string among them), and
\* accept the others.
C16_ValidationBoundary ==
    /\ (last.op = "create_column" \/ (last.op = "update_column" /\ ~ColumnMissing(last.id)))
            => (Rejected <=> TitleInvalid(last.body[1], ColumnTitleMax))
    /\ (last.op = "create_card" /\ ~ColumnMissing(last.target))
            => (Rejected <=> (TitleInvalid(last.body[1], CardTitleMax) \/ ~ColorValid(last.body[2])))
    /\ (last.op = "update_card" /\ ~CardMissing(last.id))
            => (Rejected <=> \/ last.body[1].t # "absent" /\ TitleInvalid(last.body[1], CardTitleMax)
                             \/ ~ColorValid(last.body[2]))

\* the cards of the scenario: A is the first card created, B the second;
\* "To Do" is the first seeded column, "Done" the last
ScenarioCards(rows) ==
    [k \in DOMAIN rows |-> [column_id |-> rows[k].column_id,
                             position_index |-> rows[k].position_index]]

\* a card row of the scenario, by column and position
At(column_id, pos) == [column_id |-> column_id, position_index |-> pos]

\* C17: end-to-end scenario. The seeded columns "To Do", "In Progress", "Done"
\* are at positions 0, 1, 2. Creating card A in "To Do" on the empty board
\* puts A at position 0; creating card B in "To Do" next puts B at position 1
\* and leaves A at 0; deleting A then leaves B at position 0; moving B to
\* "Done" with ordered_card_ids = [B] then leaves B in "Done" at position 0
\* and "To Do" with no card.
C17_Scenario ==
    LET ToDo == 1
        Done == Len(DefaultTitles)
        before == ScenarioCards(prev.cards)
        after == ScenarioCards(cards)
    IN  /\ DOMAIN columns = 1..Len(DefaultTitles)
                => \A i \in DOMAIN columns : columns[i] = ColumnRow(DefaultTitles[i], i - 1)
        /\ (/\ last.op = "create_card" /\ last.status = CREATED /\ last.target = ToDo
            /\ before = <<>>)
                => after = <<At(ToDo, 0)>>
        /\ (/\ last.op = "create_card" /\ last.status = CREATED /\ last.target = ToDo
            /\ before = <<At(ToDo, 0)>>)
                => after = <<At(ToDo, 0), At(ToDo, 1)>>
        /\ (/\ last.op = "delete_card" /\ last.status = NO_CONTENT /\ last.id = 1
            /\ before \in {<<At(ToDo, 0), At(ToDo, 1)>>, <<At(ToDo, 0), At(ToDo, 0)>>})
                => after = [k \in {2} |-> At(ToDo, 0)]
        /\ (/\ Moved /\ last.id = 2 /\ last.target = Done /\ last.ids = <<2>>
            /\ before = [k \in {2} |-> At(ToDo, 0)])
                => /\ after = [k \in {2} |-> At(Done, 0)]
                   /\ CardsOf(cards, ToDo) = {}

\* the rows `ids` are at pairwise distinct positions
DistinctPositions(rows, ids) ==
    \A a, b \in ids : a # b => rows[a].position_index # rows[b].position_index

\* the row after is the row before but for its position_index
OnlyPositionChanged(before, after) == after = [before EXCEPT !.position_index = after.position_index]

\* C18: normalizer result. Run on a scope whose entities are at pairwise
\* distinct positions (gaps allowed), the position normalizer leaves the scope
\* at exactly the positions 0..count-1 and in the relative order it was in;
\* it creates and deletes nothing, changes no entity outside the scope, and
\* changes no field but position_index.
C18_NormaliserResult ==
    /\ (ColumnsNormalised /\ DistinctPositions(prev.columns, DOMAIN prev.columns))
            => /\ DOMAIN columns = DOMAIN prev.columns
               /\ ColumnsDense(columns)
               /\ SameOrder(prev.columns, columns, DOMAIN columns)
               /\ \A c \in DOMAIN columns : OnlyPositionChanged(prev.columns[c], columns[c])
               /\ cards = prev.cards
    /\ (CardsNormalised /\ DistinctPositions(prev.cards, CardsOf(prev.cards, last.target)))
            => LET scope == CardsOf(prev.cards, last.target)
               IN  /\ DOMAIN cards = DOMAIN prev.cards
                   /\ CardsOf(cards, last.target) = scope
                   /\ ScopeDense(cards, scope)
                   /\ SameOrder(prev.cards, cards, scope)
                   /\ \A k \in scope : OnlyPositionChanged(prev.cards[k], cards[k])
                   /\ \A k \in DOMAIN cards \ scope : cards[k] = prev.cards[k]
                   /\ columns = prev.columns

\* the normalizer has run on two columns at distinct positions with a gap,
\* while the board held a card, and has closed the gap
C18_Witness ==
    /\ ColumnsNormalised
    /\ Cardinality(DOMAIN prev.columns) >= 2
    /\ DistinctPositions(prev.columns, DOMAIN prev.columns)
    /\ NotDense(prev.columns, DOMAIN prev.columns)
    /\ DOMAIN cards # {}
    /\ ColumnsDense(columns)

\* the last request was a delete that answered 204
ColumnDeleted == last.op = "delete_column" /\ last.status = NO_CONTENT
CardDeleted == last.op = "delete_card" /\ last.status = NO_CONTENT

\* C19: normalization is ordered between delete and commit. delete_column and
\* delete_card remove the entity, renormalize the surviving scope and commit,
\* in that order and in one transaction: the committed state after a delete
\* never shows the survivors with the gap the deleted entity left (the
\* surviving scope is dense in it, the deleted entity gone), and every
\* request that succeeds has committed exactly once.
C19_NormaliseBeforeCommit ==
    /\ ColumnDeleted
            => /\ DOMAIN columns = DOMAIN prev.columns \ {last.id}
               /\ ColumnsDense(columns)
    /\ CardDeleted
            => /\ DOMAIN cards = DOMAIN prev.cards \ {last.id}
               /\ ScopeDense(cards, CardsOf(cards, ColumnBefore(last.id)))
    /\ Succeeded => last.commits = 1

\* a column was deleted from below another column, and the committed columns
\* are dense
C19_Witness ==
    /\ ColumnDeleted
    /\ \E c \in DOMAIN columns :
          prev.columns[c].position_index > prev.columns[last.id].position_index
    /\ ColumnsDense(columns)
    /\ last.commits = 1

\* the ids the list l names
Named(l) == {l[i] : i \in 1..Len(l)}

\* C20: frame of column reorder. reorder_columns writes the position_index of
\* the columns its list names and of no other: a column the list does not
\* name keeps its position_index (no normalization pass follows, so gaps and
\* equal positions stay), every column keeps its title, no column is created
\* or deleted, and every card keeps its row.
C20_ReorderFrame ==
    Reordered
        => /\ DOMAIN columns = DOMAIN prev.columns
           /\ \A c \in DOMAIN columns :
                  /\ columns[c].title = prev.columns[c].title
                  /\ c \notin Named(last.ids)
                        => columns[c].position_index = prev.columns[c].position_index
                  /\ c \in Named(last.ids)
                        => \E i \in 1..Len(last.ids) :
                              last.ids[i] = c /\ columns[c].position_index = i - 1
           /\ cards = prev.cards

\* a reorder_columns named one column of a dense board that held a card, and
\* left two columns at one position
C20_Witness ==
    /\ Reordered
    /\ Len(last.ids) = 1
    /\ ColumnsDense(prev.columns)
    /\ Cardinality(DOMAIN columns) >= 2
    /\ columns # prev.columns
    /\ ~DistinctPositions(columns, DOMAIN columns)
    /\ DOMAIN cards # {}

\* the row after is the row before but for its column_id and position_index
OnlyPlaceChanged(before, after) ==
    after = [before EXCEPT !.column_id = after.column_id,
                           !.position_index = after.position_index]

\* the cards that stay in the column the moved card was in, when that column
\* is not the target
LeftInOriginal ==
    IF ColumnBefore(last.id) = last.target THEN {}
    ELSE CardsOf(prev.cards, ColumnBefore(last.id)) \ (Named(last.ids) \cup {last.id})

\* C21: frame of card move. move_card changes column_id only of the moved
\* card and of the cards its list names, each to the target column; it
\* changes position_index only of the cards the list names and, when the
\* original column is not the target, of the cards that stay in the moved
\* card's original column. The cards of the target column that the list does
\* not name and the cards left in a third column from which the list pulled
\* a card keep their position_index; no card or column is created or
\* deleted, and no other field changes.
C21_MoveFrame ==
    Moved
        => /\ columns = prev.columns
           /\ DOMAIN cards = DOMAIN prev.cards
           /\ \A k \in DOMAIN cards :
                  /\ OnlyPlaceChanged(prev.cards[k], cards[k])
                  /\ k \in Named(last.ids) \cup {last.id} => cards[k].column_id = last.target
                  /\ k \notin Named(last.ids) \cup {last.id}
                        => cards[k].column_id = prev.cards[k].column_id
                  /\ k \notin Named(last.ids) \cup LeftInOriginal
                        => cards[k].position_index = prev.cards[k].position_index

\* a card moved from one column to another with a list that pulled a card
\* out of a third column; the card left in the third column is still at
\* position 1, and a card of the target column that the list did not name is
\* where it was
C21_Witness ==
    /\ Moved
    /\ last.target # ColumnBefore(last.id)
    /\ \E y \in Named(last.ids), z \in DOMAIN cards \ (Named(last.ids) \cup {last.id}) :
          /\ y \in DOMAIN prev.cards
          /\ ColumnBefore(y) \notin {last.target, ColumnBefore(last.id)}
          /\ ColumnBefore(z) = ColumnBefore(y)
          /\ cards[z].column_id = ColumnBefore(y)
          /\ prev.cards[z].position_index = 1
          /\ cards[z].position_index = 1

\* the last move_card carried no ordered_card_ids, or an empty one
MoveWithoutList == last.op = "move_card" /\ last.body[2] \in {"absent", "list"} /\ last.ids = <<>>

\* C22: move without an ordering list. A move_card of a card of the store to
\* a column of the store with ordered_card_ids absent or empty answers 200;
\* the moved card is in the target column (also when that is the column it
\* was in) at the position_index it had; no other card of the target column
\* changes; the cards left in the original column are renormalized when it
\* is not the target, and nothing at all changes when it is.
C22_MoveWithoutList ==
    /\ (/\ last.op = "move_card" /\ last.fail = "none"
        /\ last.body \in {<<"int", "absent">>, <<"int", "list">>}
        /\ ~CardMissing(last.id) /\ ~ColumnMissing(last.target)) => last.status = OK
    /\ (Moved /\ MoveWithoutList)
            => LET original == ColumnBefore(last.id)
                   left == CardsOf(prev.cards, original) \ {last.id}
               IN  /\ cards[last.id] = [prev.cards[last.id] EXCEPT !.column_id = last.target]
                   /\ \A k \in CardsOf(prev.cards, last.target) \ {last.id} :
                          cards[k] = prev.cards[k]
                   /\ original = last.target => cards = prev.cards
                   /\ original # last.target
                        => /\ CardsOf(cards, original) = left
                           /\ ScopeDense(cards, left)
                           /\ SameOrder(prev.cards, cards, left)
                   /\ \A k \in DOMAIN cards \ (left \cup {last.id}) : cards[k] = prev.cards[k]

\* a card at position 1 moved without a list to a column that held a card:
\* it is there at position 1, and the card it left behind has moved down
C22_Witness ==
    /\ Moved /\ last.body = <<"int", "absent">>
    /\ last.target # ColumnBefore(last.id)
    /\ prev.cards[last.id].position_index = 1
    /\ cards[last.id] = [prev.cards[last.id] EXCEPT !.column_id = last.target]
    /\ CardsOf(prev.cards, last.target) # {}
    /\ \E k \in CardsOf(cards, ColumnBefore(last.id)) :
          cards[k].position_index < prev.cards[k].position_index

====
